---- MODULE Spec2Model ----
(***************************************************************************)
(* Picture Reviewer (pbaret/Photo_Selector): the motion-photo core         *)
(* (core/motion_photo.py), the indexer (core/indexer.py) and the review    *)
(* session kept by ui/main_window.py.                                      *)
(*                                                                         *)
(* Four specifications share the variables:                                *)
(*   SpecBytes   the detector and the extractor applied to byte buffers    *)
(*   SpecFrames  the frame sampler applied to videos                       *)
(*   Spec        the review session (MainWindow)                           *)
(*   SpecCommit  the review session with its commit                        *)
(***************************************************************************)
EXTENDS Integers, Sequences, FiniteSets, TLC

VARIABLES
    parts,          \* the input buffer, as the sequence of pieces it is built from
    trail,          \* number of bytes appended after the pieces
    data,           \* the input buffer: the bytes of the file
    video,          \* the video handed to the frame sampler
    step,           \* the sampling step handed to the frame sampler
    ret,            \* what the last call of a core function returned
    tmpfiles,       \* the temporary directory: set of [name, bytes]
    seen,           \* the calls of is_motion_photo so far: set of
                    \* <<bytes, result, number of temporary files at the call>>
    fs,             \* the disk: set of [path, blob], blob naming the file's bytes
    images_entries, \* MainWindow.images_entries
    images_tags,    \* MainWindow.images_tags
    file_list,      \* MainWindow.file_list: the path stored in each row
    current_index,  \* MainWindow.current_index
    source_dir      \* MainWindow.source_dir

vars == <<parts, trail, data, video, step, ret, tmpfiles, seen,
          fs, images_entries, images_tags, file_list, current_index, source_dir>>

bytesVars == <<parts, trail, data>>
framesVars == <<video, step>>
sessionVars == <<fs, images_entries, images_tags, file_list, current_index, source_dir>>

(***************************************************************************)
(* Bounds of the model.                                                    *)
(***************************************************************************)
MaxBody == 2        \* pieces between the open tag and the close tag
MaxTrail == 2       \* bytes appended after the last piece
MaxFrames == 5      \* frames of a video
MaxStep == 3        \* sampling step
MaxTmp == 1         \* temporary files that exist at a time
MaxFiles == 2       \* files on the disk when the session starts
MaxShown == 2       \* frames of a video shown in the frame picker
MaxEntries == 3     \* entries of the session
MaxCommits == 1     \* commits carried out on a disk

(***************************************************************************)
(* Byte strings: sequences of byte values.  The patterns of motion_photo.py *)
(* in ASCII.                                                               *)
(***************************************************************************)
\* rb"<x:xmpmeta"
OpenTag == <<60, 120, 58, 120, 109, 112, 109, 101, 116, 97>>
\* rb"</x:xmpmeta>"
CloseTag == <<60, 47, 120, 58, 120, 109, 112, 109, 101, 116, 97, 62>>
\* b"GCamera:MotionPhoto"
MotionToken == <<71, 67, 97, 109, 101, 114, 97, 58, 77, 111, 116, 105, 111, 110,
                 80, 104, 111, 116, 111>>
\* rb'Item:Mime="video/mp4"'
MimeVideo == <<73, 116, 101, 109, 58, 77, 105, 109, 101, 61, 34, 118, 105, 100,
               101, 111, 47, 109, 112, 52, 34>>
\* rb'Item:Length="'
LengthPrefix == <<73, 116, 101, 109, 58, 76, 101, 110, 103, 116, 104, 61, 34>>

Newline == 10
Quote == 34
IsDigit(b) == 48 <= b /\ b <= 57

\* pat occurs in s at position i (1-based)
MatchAt(pat, s, i) ==
    /\ i >= 1
    /\ i + Len(pat) - 1 <= Len(s)
    /\ \A k \in 1..Len(pat) : s[i + k - 1] = pat[k]

\* the least element of a set of positions; 0 for the empty set
Leftmost(S) == IF S = {} THEN 0 ELSE CHOOSE i \in S : \A j \in S : i <= j

\* leftmost position >= from where pat occurs in s; 0 when there is none
Find(pat, s, from) ==
    Leftmost({i \in from..(Len(s) - Len(pat) + 1) : s[i] = pat[1] /\ MatchAt(pat, s, i)})

\* b"..." in s
Contains(pat, s) == Find(pat, s, 1) # 0

NoMatch == [ok |-> FALSE, start |-> 0, stop |-> 0]

\* re.search(rb"<x:xmpmeta.*?</x:xmpmeta>", data, re.DOTALL), scanning from
\* `from`: the leftmost open tag that some close tag follows, up to the
\* nearest such close tag (.*? is lazy and, under DOTALL, crosses newlines).
RECURSIVE XmpSearchFrom(_, _)
XmpSearchAt(s, o, c) ==
    IF o = 0 THEN NoMatch
    ELSE IF c # 0 THEN [ok |-> TRUE, start |-> o, stop |-> c + Len(CloseTag) - 1]
    ELSE XmpSearchFrom(s, o + 1)

XmpSearchOpen(s, o) ==
    XmpSearchAt(s, o, IF o = 0 THEN 0 ELSE Find(CloseTag, s, o + Len(OpenTag)))

XmpSearchFrom(s, from) == XmpSearchOpen(s, Find(OpenTag, s, from))

XmpSearch(s) == XmpSearchFrom(s, 1)

\* m.group(0)
Group0(s, m) == SubSeq(s, m.start, m.stop)

(***************************************************************************)
(* core/motion_photo.py                                                    *)
(***************************************************************************)
\* is_motion_photo, on the bytes read from the file
\* a faulty variant: the token is looked for in the whole file
TokenAnywhere(bytes, m) ==
    IF ~m.ok THEN FALSE
    ELSE Contains(MotionToken, bytes)

TokenInBlock(bytes, m) ==
    IF ~m.ok THEN FALSE
    ELSE Contains(MotionToken, Group0(bytes, m))

IsMotionPhoto(bytes) == TokenInBlock(bytes, XmpSearch(bytes))

\* number of digit bytes of s from position i on: what a greedy \d+ takes
RECURSIVE DigitRun(_, _)
DigitRun(s, i) ==
    IF i <= Len(s) /\ IsDigit(s[i]) THEN 1 + DigitRun(s, i + 1) ELSE 0

\* Item:Length="(\d+)" matches s at position j
LengthAt(s, j) ==
    /\ MatchAt(LengthPrefix, s, j)
    /\ LET d == DigitRun(s, j + Len(LengthPrefix)) IN
       /\ d >= 1
       /\ j + Len(LengthPrefix) + d <= Len(s)
       /\ s[j + Len(LengthPrefix) + d] = Quote

\* leftmost position >= from where Item:Length="(\d+)" matches; 0 when none
FindLength(s, from) ==
    Leftmost({j \in from..(Len(s) - Len(LengthPrefix)) :
                 s[j] = LengthPrefix[1] /\ LengthAt(s, j)})

\* re.search(rb'Item:Mime="video/mp4".*?Item:Length="(\d+)"', xmp, re.DOTALL):
\* start is where the match begins, stop the position of the Length field it
\* binds to.
RECURSIVE MimeLengthSearchFrom(_, _)
MimeLengthSearchAt(s, i, j) ==
    IF i = 0 THEN NoMatch
    ELSE IF j # 0 THEN [ok |-> TRUE, start |-> i, stop |-> j]
    ELSE MimeLengthSearchFrom(s, i + 1)

MimeLengthSearchMime(s, i) ==
    MimeLengthSearchAt(s, i, IF i = 0 THEN 0 ELSE FindLength(s, i + Len(MimeVideo)))

MimeLengthSearchFrom(s, from) == MimeLengthSearchMime(s, Find(MimeVideo, s, from))

MimeLengthSearch(s) == MimeLengthSearchFrom(s, 1)

\* m2.group(1): the digits of the Length field the match binds to
Group1(s, m2) ==
    LET a == m2.stop + Len(LengthPrefix) IN
    SubSeq(s, a, a + DigitRun(s, a) - 1)

\* int(b"...") of a string of decimal digits
RECURSIVE ParseInt(_)
ParseInt(ds) ==
    IF ds = <<>> THEN 0
    ELSE 10 * ParseInt(SubSeq(ds, 1, Len(ds) - 1)) + (ds[Len(ds)] - 48)

\* data[offset:] for offset >= 0
SliceFrom(s, offset) == SubSeq(s, offset + 1, Len(s))

NoVideo == [found |-> FALSE, length |-> 0, bytes |-> <<>>]

\* extract_motion_video up to the temporary file: the bytes it writes, or none
\* a faulty variant: the slice starts at the declared length, not at the offset
SliceVideoAtLength(bytes, mp4_length) ==
    IF Len(bytes) - mp4_length < 0 THEN NoVideo
    ELSE [found |-> TRUE, length |-> mp4_length,
          bytes |-> SliceFrom(bytes, mp4_length)]

\* lines 64-71: the slice, given the declared length
SliceVideo(bytes, mp4_length) ==
    IF Len(bytes) - mp4_length < 0 THEN NoVideo
    ELSE [found |-> TRUE, length |-> mp4_length,
          bytes |-> SliceFrom(bytes, Len(bytes) - mp4_length)]

\* a faulty variant: no check of the offset; data[offset:] with offset < 0 counts from
\* the end
SliceUnchecked(bytes, mp4_length) ==
    [found |-> TRUE, length |-> mp4_length,
     bytes |-> IF Len(bytes) - mp4_length >= 0
               THEN SliceFrom(bytes, Len(bytes) - mp4_length)
               ELSE IF mp4_length - Len(bytes) >= Len(bytes) THEN bytes
               ELSE SliceFrom(bytes, Len(bytes) - (mp4_length - Len(bytes)))]

\* lines 68-69: the check of the offset
CheckOffset(bytes, mp4_length) == SliceVideo(bytes, mp4_length)

\* lines 61-64: the declared length, given the match in the block
VideoOfMatch(bytes, xmp, m2) ==
    IF ~m2.ok THEN NoVideo
    ELSE CheckOffset(bytes, ParseInt(Group1(xmp, m2)))

\* lines 55-60: the search in the block
VideoOfXmp(bytes, xmp) == VideoOfMatch(bytes, xmp, MimeLengthSearch(xmp))

\* a faulty variant: the item is looked for in the whole file, not in the block
VideoOfWholeFile(bytes, m) ==
    IF ~m.ok THEN NoVideo
    ELSE VideoOfXmp(bytes, bytes)

\* lines 50-53: the block
VideoOfBlock(bytes, m) ==
    IF ~m.ok THEN NoVideo
    ELSE VideoOfXmp(bytes, Group0(bytes, m))

ExtractMotionVideo(bytes) == VideoOfBlock(bytes, XmpSearch(bytes))

\* tempfile.NamedTemporaryFile(suffix=".mp4", delete=False): a name no file
\* of the temporary directory has
NewTmpName == Leftmost((1..(Cardinality(tmpfiles) + 1)) \ {f.name : f \in tmpfiles})

\* os.remove(mp4_path)
RemoveFile(dir, name) == {f \in dir : f.name # name}


\* a frame is kept when its decode index is a multiple of the step: line 109
\* a faulty variant: the test is made on the index after its increment
KeepFrameAfterIncrement(index, n) == (index + 1) % n = 0

KeepFrame(index, n) == index % n = 0

\* a faulty variant: a failed read discards the frames decoded so far
DropOnFailure(v, frames) == [raised |-> v.raises, frames |-> <<>>]

\* cap.read() fails at the end of the stream or on a frame that does not
\* decode: ret is False and the loop breaks (lines 105-107, 114-115); when the
\* decoding library raises instead, the exception leaves the function.
ReadFailed(v, frames) ==
    [raised |-> v.raises, frames |-> IF v.raises THEN <<>> ELSE frames]

\* the loop of lines 104-112; frame i of the stream is written i
RECURSIVE ReadLoop(_, _, _, _)
ReadLoop(v, n, index, frames) ==
    IF index >= v.good THEN ReadFailed(v, frames)
    ELSE ReadLoop(v, n, index + 1,
                  IF KeepFrame(index, n) THEN Append(frames, index) ELSE frames)

\* extract_frames_from_mp4(mp4_path, step): lines 97-115
ExtractFramesFromMp4(v, n) ==
    IF ~v.opened THEN [raised |-> FALSE, frames |-> <<>>]
    ELSE ReadLoop(v, n, 0, <<>>)

\* A video, as the decoder sees it: whether cv2.VideoCapture opens it, the
\* frames of its stream, how many of them decode before a read fails (all of
\* them: the read fails at the end of the stream), and whether the failing
\* read raises instead of returning ret = False.
Videos ==
    {v \in [opened : BOOLEAN, total : 0..MaxFrames, good : 0..MaxFrames,
            raises : BOOLEAN] :
        /\ v.good <= v.total
        /\ v.raises => (v.opened /\ v.good < v.total)}

(***************************************************************************)
(* Input buffers.  A buffer is a sequence of pieces followed by `trail`    *)
(* payload bytes; an item of the container directory is written            *)
(* <rdf:li attribute NEWLINE attribute/>.                                  *)
(***************************************************************************)
ItemOpen == <<60, 114, 100, 102, 58, 108, 105, 32>>
ItemEnd == <<47, 62>>
MimeImage == <<73, 116, 101, 109, 58, 77, 105, 109, 101, 61, 34, 105, 109, 97,
               103, 101, 47, 106, 112, 101, 103, 34>>

LengthAttr(digits) == LengthPrefix \o digits \o <<Quote>>
Item(a, b) == ItemOpen \o a \o <<Newline>> \o b \o ItemEnd

PieceBytes(p) ==
    CASE p = "jpg"    -> <<255, 216, Newline>>
      [] p = "open"   -> OpenTag
      [] p = "close"  -> CloseTag
      [] p = "token"  -> MotionToken
      [] p = "V"      -> ItemOpen \o MimeVideo \o ItemEnd
      [] p = "VML0"   -> Item(MimeVideo, LengthAttr(<<48>>))
      [] p = "VML2"   -> Item(MimeVideo, LengthAttr(<<50>>))
      [] p = "VML999" -> Item(MimeVideo, LengthAttr(<<57, 57, 57>>))
      [] p = "VLM03"  -> Item(LengthAttr(<<48, 51>>), MimeVideo)
      [] p = "IML1"   -> Item(MimeImage, LengthAttr(<<49>>))

RECURSIVE Render(_)
Render(ps) == IF ps = <<>> THEN <<>> ELSE PieceBytes(Head(ps)) \o Render(Tail(ps))

\* the payload bytes: "A", "B", ...
Payload(n) == [k \in 1..n |-> 64 + k]

BodyPieces == {"jpg", "token", "V", "VML0", "VML2", "VML999", "VLM03", "IML1"}
Bodies == UNION {[1..n -> BodyPieces] : n \in 0..MaxBody}
Prefixes == {<<>>, <<"jpg">>, <<"token">>, <<"close">>, <<"open", "close">>, <<"VML2">>}
Suffixes == {<<>>, <<"token">>, <<"VML2">>}
Opt(b, p) == IF b THEN <<p>> ELSE <<>>

NoRet == [op |-> "none", ok |-> FALSE, val |-> 0]
NoVideoInput == [opened |-> FALSE, total |-> 0, good |-> 0, raises |-> FALSE]

IdleFrames == video = NoVideoInput /\ step = 1
IdleBytes == parts = <<>> /\ trail = 0 /\ data = <<>>
IdleSession ==
    /\ fs = {}
    /\ images_entries = <<>>
    /\ images_tags = <<>>
    /\ file_list = <<>>
    /\ current_index = -1
    /\ source_dir = <<>>

InitBytes ==
    /\ \E pre \in Prefixes, body \in Bodies, post \in Suffixes,
          o \in BOOLEAN, c \in BOOLEAN :
          \* a buffer that lacks a tag has no suffix and at most a stray close tag
          /\ (o /\ c) \/ (post = <<>> /\ pre \in {<<>>, <<"close">>})
          /\ parts = pre \o Opt(o, "open") \o body \o Opt(c, "close") \o post
    /\ trail \in 0..MaxTrail
    /\ data = Render(parts) \o Payload(trail)
    /\ ret = NoRet
    /\ tmpfiles = {}
    /\ seen = {}
    /\ IdleFrames
    /\ IdleSession

\* a caller reads the file and asks the detector
\* a faulty variant: the detector leaves the block it found in a temporary file
ReturnIsMotionAndDump(b) ==
    /\ ret' = [op |-> "is_motion_photo", ok |-> b, val |-> 0]
    /\ seen' = seen \cup {<<data, b, Cardinality(tmpfiles)>>}
    /\ tmpfiles' = tmpfiles \cup {[name |-> NewTmpName, bytes |-> <<>>]}
    /\ UNCHANGED <<bytesVars, framesVars, sessionVars>>

\* lines 21-30: the file is opened for reading, and nothing is written
ReturnIsMotion(b) ==
    /\ ret' = [op |-> "is_motion_photo", ok |-> b, val |-> 0]
    /\ seen' = seen \cup {<<data, b, Cardinality(tmpfiles)>>}
    /\ UNCHANGED <<bytesVars, framesVars, sessionVars, tmpfiles>>

CallIsMotionPhoto == ReturnIsMotion(IsMotionPhoto(data))

\* lines 73-78: the temporary file and the path returned, or None
ReturnVideo(r) ==
    IF r.found
    THEN /\ tmpfiles' = tmpfiles \cup {[name |-> NewTmpName, bytes |-> r.bytes]}
         /\ ret' = [op |-> "extract_motion_video", ok |-> TRUE, val |-> NewTmpName]
    ELSE /\ ret' = [op |-> "extract_motion_video", ok |-> FALSE, val |-> 0]
         /\ UNCHANGED tmpfiles

\* a caller asks the extractor: lines 46-78
CallExtractMotionVideo ==
    /\ Cardinality(tmpfiles) < MaxTmp
    /\ ReturnVideo(ExtractMotionVideo(data))
    /\ UNCHANGED <<bytesVars, framesVars, sessionVars, seen>>

\* the caller deletes a temporary file it was handed
CallRemove ==
    /\ \E f \in tmpfiles :
          /\ tmpfiles' = RemoveFile(tmpfiles, f.name)
          /\ ret' = [op |-> "os.remove", ok |-> TRUE, val |-> f.name]
    /\ UNCHANGED <<bytesVars, framesVars, sessionVars, seen>>

(***************************************************************************)
(* The frame sampler applied to a video.                                   *)
(***************************************************************************)
InitFrames ==
    /\ video \in Videos
    /\ step \in 1..MaxStep
    /\ ret = NoRet
    /\ tmpfiles = {}
    /\ seen = {}
    /\ IdleBytes
    /\ IdleSession

ReturnFrames(r) ==
    ret' = [op |-> "extract_frames_from_mp4", ok |-> ~r.raised, val |-> r.frames]

CallExtractFrames ==
    /\ ret.op = "none"
    /\ ReturnFrames(ExtractFramesFromMp4(video, step))
    /\ UNCHANGED <<bytesVars, framesVars, sessionVars, tmpfiles, seen>>

SpecFrames == InitFrames /\ [][CallExtractFrames]_vars

NextBytes == CallIsMotionPhoto \/ CallExtractMotionVideo \/ CallRemove

SpecBytes == InitBytes /\ [][NextBytes]_vars


(***************************************************************************)
(* Strings and paths.  A string is a sequence of character codes, a path   *)
(* the sequence of its components.                                         *)
(***************************************************************************)
Dot == 46
Slash == 47
Zero == 48

\* str.lower, on ASCII
Lower(str) ==
    [i \in 1..Len(str) |-> IF 65 <= str[i] /\ str[i] <= 90 THEN str[i] + 32 ELSE str[i]]

\* position of the last dot of a file name that starts a suffix (pathlib: not
\* the first and not the last character); 0 when there is none
SuffixDot(name) ==
    LET dots == {i \in 1..Len(name) : name[i] = Dot}
        last == IF dots = {} THEN 0 ELSE CHOOSE i \in dots : \A j \in dots : j <= i
    IN IF 1 < last /\ last < Len(name) THEN last ELSE 0

\* PurePath.suffix and PurePath.stem, of a file name
Suffix(name) ==
    IF SuffixDot(name) = 0 THEN <<>> ELSE SubSeq(name, SuffixDot(name), Len(name))
Stem(name) ==
    IF SuffixDot(name) = 0 THEN name ELSE SubSeq(name, 1, SuffixDot(name) - 1)

\* PurePath.name, PurePath.parent, parent / name
Name(path) == path[Len(path)]
Parent(path) == SubSeq(path, 1, Len(path) - 1)
Join(dir, name) == Append(dir, name)

\* str(path)
RECURSIVE StrOf(_)
StrOf(path) ==
    IF path = <<>> THEN <<>> ELSE <<Slash>> \o Head(path) \o StrOf(Tail(path))

\* a <= b for strings: by the first character that differs, a prefix first
StrLeq(a, b) ==
    LET n == IF Len(a) < Len(b) THEN Len(a) ELSE Len(b)
        d == Leftmost({i \in 1..n : a[i] # b[i]})
    IN IF d = 0 THEN Len(a) <= Len(b) ELSE a[d] < b[d]

\* f"{k:03d}"
RECURSIVE Decimal(_)
Decimal(k) == IF k < 10 THEN <<Zero + k>> ELSE Decimal(k \div 10) \o <<Zero + (k % 10)>>
Format03d(k) ==
    LET d == Decimal(k) IN
    IF Len(d) >= 3 THEN d ELSE [i \in 1..(3 - Len(d)) |-> Zero] \o d

(***************************************************************************)
(* core/indexer.py                                                         *)
(***************************************************************************)
ExtJpg == <<46, 106, 112, 103>>             \* ".jpg"
ExtJpeg == <<46, 106, 112, 101, 103>>       \* ".jpeg"
SUPPORTED_EXT ==
    {ExtJpg, ExtJpeg, <<46, 112, 110, 103>>, <<46, 119, 101, 98, 112>>,
     <<46, 116, 105, 102, 102>>, <<46, 98, 109, 112>>}

\* line 40: path.suffix.lower() in SUPPORTED_EXT
Supported(path) == Lower(Suffix(Name(path))) \in SUPPORTED_EXT

\* a faulty variant: the detector is run on every supported file
DetectEverywhere(path) == Supported(path)

\* line 44: entry.path.suffix.lower() in {".jpg", ".jpeg"}
IsJpeg(path) == Lower(Suffix(Name(path))) \in {ExtJpg, ExtJpeg}

\* root.rglob("*"): the files below root
IsUnder(path, root) ==
    Len(path) > Len(root) /\ SubSeq(path, 1, Len(root)) = root

\* The contents of the files of a session: a motion photo with a two-byte
\* video, a file with the motion marker but no video item, an ordinary JPEG.
Blobs == {"motion", "marker", "plain"}
BytesOf(blob) ==
    CASE blob = "motion" -> Render(<<"jpg", "open", "token", "VML2", "close">>) \o Payload(2)
      [] blob = "marker" -> Render(<<"open", "token", "close">>)
      [] blob = "plain"  -> Render(<<"jpg">>)

\* is_motion_photo and extract_motion_video on each of these contents
Detected == [b \in Blobs |-> IsMotionPhoto(BytesOf(b))]
VideoIn == [b \in Blobs |-> ExtractMotionVideo(BytesOf(b))]

\* lines 39 and 43-45: the entry of a file
EntryOf(f) ==
    [path |-> f.path,
     is_motion |-> IF IsJpeg(f.path) THEN Detected[f.blob] ELSE FALSE]

\* line 48: the sort key, and its order (tuples compare item by item)
SortKey(path) == <<Lower(StrOf(Parent(path))), Lower(Name(path))>>
KeyLeq(k1, k2) == IF k1[1] = k2[1] THEN StrLeq(k1[2], k2[2]) ELSE StrLeq(k1[1], k2[1])

\* the lists a sort of the entries S can give: rglob yields them in any order
\* and the sort keeps that order between equal keys
RECURSIVE SortedLists(_)
SortedLists(S) ==
    IF S = {} THEN {<<>>}
    ELSE UNION {{<<x>> \o rest : rest \in SortedLists(S \ {x})} :
                   x \in {y \in S : \A z \in S : KeyLeq(SortKey(y.path), SortKey(z.path))}}

\* index_images(root), on the files of the disk
index_images(disk, root) ==
    SortedLists({EntryOf(f) : f \in {g \in disk : IsUnder(g.path, root) /\ Supported(g.path)}})

(***************************************************************************)
(* The disk.                                                               *)
(***************************************************************************)
DirR == <<<<114>>>>                         \* /r
DirSub == <<<<114>>, <<115, 117, 98>>>>     \* /r/sub
DirE == <<<<101>>>>                         \* /e, an empty folder
Folders == {DirR, DirSub, DirE}

DiskFiles ==
    {[path |-> Join(DirR, <<97, 46, 106, 112, 103>>), blob |-> "motion"],     \* a.jpg
     [path |-> Join(DirR, <<97, 46, 106, 112, 103>>), blob |-> "plain"],      \* a.jpg
     [path |-> Join(DirR, <<66, 46, 74, 80, 71>>), blob |-> "marker"],    \* B.JPG
     [path |-> Join(DirR, <<99, 46, 112, 110, 103>>), blob |-> "motion"],     \* c.png
     [path |-> Join(DirR, <<100, 46, 116, 120, 116>>), blob |-> "motion"],    \* d.txt
     [path |-> Join(DirSub, <<97, 46, 106, 112, 103>>), blob |-> "motion"]}   \* sub/a.jpg

Disks ==
    {d \in SUBSET DiskFiles :
        /\ Cardinality(d) <= MaxFiles
        /\ \A f, g \in d : f.path = g.path => f = g}

Exists(path) == \E f \in fs : f.path = path
BlobAt(path) == (CHOOSE f \in fs : f.path = path).blob
\* a file written, over the file of that path if there is one
WriteFile(disk, path, blob) ==
    {f \in disk : f.path # path} \cup {[path |-> path, blob |-> blob]}

(***************************************************************************)
(* ui/main_window.py: the review session                                   *)
(***************************************************************************)
UNMARKED == "UNMARKED"
SELECTED == "SELECTED"
TO_REMOVE == "TO_REMOVE"
Keys == {"Right", "Left", "Up", "Down", "U", "S", "R", "Other"}

\* MainWindow.__init__, on some disk
Init ==
    /\ fs \in Disks
    /\ images_entries = <<>>
    /\ images_tags = <<>>
    /\ file_list = <<>>
    /\ current_index = -1
    /\ source_dir = <<>>
    /\ ret = NoRet
    /\ tmpfiles = {}
    /\ seen = {}
    /\ IdleBytes
    /\ IdleFrames

\* display_index(i), lines 152-156: the index displayed afterwards
display_index(entries, i, cur) ==
    IF 0 <= i /\ i < Len(entries) THEN i ELSE cur

\* a faulty variant: the tags of the previous folder are kept
MergedTags(es) ==
    [q \in DOMAIN images_tags \cup {es[i].path : i \in 1..Len(es)} |->
        IF q \in DOMAIN images_tags THEN images_tags[q] ELSE UNMARKED]

\* lines 117 and 129-133: the tags are cleared, then one per entry
ClearedTags(es) == [q \in {es[i].path : i \in 1..Len(es)} |-> UNMARKED]

\* a faulty variant: the entry shown stays the one of the same index
ShowSame(es) == current_index

\* lines 139-140: the first entry of the new list is shown
ShowFirst(es) == display_index(es, 0, current_index)

\* choose_folder, with the folder the dialog returned (no folder: it returns)
choose_folder(folder) ==
    \E es \in index_images(fs, folder) :
        /\ Len(es) <= MaxEntries
        /\ images_entries' = es
        /\ IF es = <<>>
           THEN /\ images_tags' = <<>>
                /\ UNCHANGED <<file_list, current_index, source_dir>>
           ELSE /\ source_dir' = folder
                /\ file_list' = [i \in 1..Len(es) |-> es[i].path]
                /\ images_tags' = ClearedTags(es)
                /\ current_index' = ShowFirst(es)
        /\ ret' = [op |-> "choose_folder", ok |-> es # <<>>, val |-> folder]
        /\ UNCHANGED <<fs, tmpfiles, seen, bytesVars, framesVars>>

ChooseFolder == \E folder \in Folders : choose_folder(folder)

\* on_file_clicked
OnFileClicked ==
    \E row \in 0..(Len(file_list) - 1) :
        /\ current_index' = display_index(images_entries, row, current_index)
        /\ ret' = [op |-> "on_file_clicked", ok |-> TRUE, val |-> row]
        /\ UNCHANGED <<fs, images_entries, images_tags, file_list, source_dir,
                       tmpfiles, seen, bytesVars, framesVars>>

\* images_entries[current_index] does not raise IndexError
InRange(i) == -Len(images_entries) <= i /\ i < Len(images_entries)
\* images_entries[i], a negative i counting from the end
EntryAt(i) == images_entries[IF i < 0 THEN Len(images_entries) + i + 1 ELSE i + 1]

\* action_next_image, action_previous_image
action_next_image ==
    IF current_index < Len(images_entries) - 1
    THEN display_index(images_entries, current_index + 1, current_index)
    ELSE current_index
action_previous_image ==
    IF current_index > 0
    THEN display_index(images_entries, current_index - 1, current_index)
    ELSE current_index

\* a faulty variant: S and R set their tag and never take it back
StickyTag(key, current_tag) ==
    CASE key = "U" -> UNMARKED
      [] key = "S" -> SELECTED
      [] key = "R" -> TO_REMOVE
      [] OTHER -> current_tag

\* lines 206-221: the tag a key gives
NewTag(key, current_tag) ==
    CASE key = "U" -> UNMARKED
      [] key = "S" -> IF current_tag = SELECTED THEN UNMARKED ELSE SELECTED
      [] key = "R" -> IF current_tag = TO_REMOVE THEN UNMARKED ELSE TO_REMOVE
      [] OTHER -> current_tag

\* keyPressEvent
keyPressEvent(key) ==
    /\ images_entries # <<>>
    /\ InRange(current_index)
    /\ EntryAt(current_index).path \in DOMAIN images_tags
    /\ current_index' =
          CASE key \in {"Right", "Down"} -> action_next_image
            [] key \in {"Left", "Up"} -> action_previous_image
            [] OTHER -> current_index
    /\ images_tags' =
          [images_tags EXCEPT ![EntryAt(current_index).path] =
              NewTag(key, images_tags[EntryAt(current_index).path])]
    /\ ret' = [op |-> "keyPressEvent", ok |-> TRUE, val |-> key]
    /\ UNCHANGED <<fs, images_entries, file_list, source_dir,
                   tmpfiles, seen, bytesVars, framesVars>>

KeyPress == \E key \in Keys : keyPressEvent(key)

\* cv2.imwrite encodes the frame as an ordinary JPEG
EncodedFrame == "plain"

\* the videos the decoder may find in a temporary file
ShownVideos == {v \in Videos : v.total <= MaxShown}

\* line 397
OutName(jpeg_path, best_frame_idx) ==
    Stem(Name(jpeg_path)) \o <<95, 102, 114, 97, 109, 101, 95>>
        \o Format03d(best_frame_idx) \o ExtJpg

\* lines 396-408: the frame is written and registered
AddFrame(jpeg_path, best_frame_idx, out_path) ==
    /\ Len(images_entries) < MaxEntries
    /\ fs' = WriteFile(fs, out_path, EncodedFrame)
    /\ images_entries' = Append(images_entries, [path |-> out_path, is_motion |-> FALSE])
    /\ images_tags' =
          [q \in DOMAIN images_tags \cup {out_path} |->
              IF q = out_path THEN SELECTED ELSE images_tags[q]]
    /\ file_list' = Append(file_list, out_path)
    /\ UNCHANGED <<current_index, source_dir>>

\* what the extract-best-frame operation did: the photo, how it ended
\* ("no_video", "raised", "no_frames", "cancelled", "accepted") and the index
\* the frame picker was accepted with (-1 when it was not accepted)
Ended(jpeg_path, outcome, index) ==
    [op |-> "extract_best_frame", ok |-> outcome = "accepted",
     val |-> [path |-> jpeg_path, outcome |-> outcome, index |-> index]]

\* a faulty variant: the first frame is written like any other
FirstFrameWritten(best_frame_idx) == FALSE

\* line 392: the first frame is the still image already shown
FirstFrame(best_frame_idx) == best_frame_idx = 0

\* lines 388-410: the frame picker was accepted with index best_frame_idx
Accepted(jpeg_path, best_frame_idx) ==
    IF FirstFrame(best_frame_idx)
    THEN /\ UNCHANGED sessionVars
         /\ ret' = Ended(jpeg_path, "accepted", best_frame_idx)
    ELSE /\ AddFrame(jpeg_path, best_frame_idx,
                     Join(source_dir, OutName(jpeg_path, best_frame_idx)))
         /\ ret' = Ended(jpeg_path, "accepted", best_frame_idx)

\* lines 387-412: the frame picker, cancelled (choice -1) or accepted
PickFrame(jpeg_path, frames) ==
    \E choice \in -1..(Len(frames) - 1) :
        IF choice < 0
        THEN /\ UNCHANGED sessionVars
             /\ ret' = Ended(jpeg_path, "cancelled", -1)
        ELSE Accepted(jpeg_path, choice)

\* lines 377-385: the decode, the removal of the temporary file (removed is
\* false when os.remove raises OSError, which is passed over), the frames
DecodeAndPick(jpeg_path, tmp, decoded, removed) ==
    IF decoded.raised
    THEN /\ tmpfiles' = tmpfiles \cup {tmp}
         /\ ret' = Ended(jpeg_path, "raised", -1)
         /\ UNCHANGED sessionVars
    ELSE /\ tmpfiles' = IF removed THEN tmpfiles ELSE tmpfiles \cup {tmp}
         /\ IF decoded.frames = <<>>
            THEN /\ UNCHANGED sessionVars
                 /\ ret' = Ended(jpeg_path, "no_frames", -1)
            ELSE PickFrame(jpeg_path, decoded.frames)

\* lines 372-375
ExtractFrom(jpeg_path, r) ==
    IF ~r.found
    THEN /\ UNCHANGED <<sessionVars, tmpfiles>>
         /\ ret' = Ended(jpeg_path, "no_video", -1)
    ELSE /\ Cardinality(tmpfiles) < MaxTmp
         /\ \E v \in ShownVideos, removed \in BOOLEAN :
               DecodeAndPick(jpeg_path, [name |-> NewTmpName, bytes |-> r.bytes],
                             ExtractFramesFromMp4(v, 1), removed)

\* extract_best_frame_from_current
ExtractBestFrame ==
    /\ images_entries # <<>>
    /\ InRange(current_index)
    /\ EntryAt(current_index).is_motion
    /\ Exists(EntryAt(current_index).path)
    /\ ExtractFrom(EntryAt(current_index).path,
                   VideoIn[BlobAt(EntryAt(current_index).path)])
    /\ UNCHANGED <<seen, bytesVars, framesVars>>

\* the output folders and the log of a commit
SelectedName == <<115, 101, 108, 101, 99, 116, 101, 100>>                 \* "selected"
ToRemoveName ==
    <<116, 111, 95, 98, 101, 95, 114, 101, 109, 111, 118, 101, 100>>      \* "to_be_removed"
LogName ==
    <<99, 111, 109, 109, 105, 116, 95, 108, 111, 103, 46, 116, 120, 116>> \* "commit_log.txt"
selected_dir == Join(source_dir, SelectedName)
to_remove_dir == Join(source_dir, ToRemoveName)

\* images_tags.items(): the paths in the order they were inserted, which is
\* the order of their first entry in images_entries
RECURSIVE FirstPaths(_, _)
FirstPaths(entries, done) ==
    IF entries = <<>> THEN <<>>
    ELSE IF Head(entries).path \in done THEN FirstPaths(Tail(entries), done)
    ELSE <<Head(entries).path>>
            \o FirstPaths(Tail(entries), done \cup {Head(entries).path})
TagItems == FirstPaths(images_entries, {})

ExistsOn(disk, path) == \E f \in disk : f.path = path
BlobOn(disk, path) == (CHOOSE f \in disk : f.path = path).blob

\* lines 331 and 337: dst = dir / path.name
Destination(dir, path) == Join(dir, Name(path))

\* the operations of a plan for the paths of one tag: <<src, dst>>
RECURSIVE PlanOps(_, _, _)
PlanOps(items, tag, dir) ==
    IF items = <<>> THEN <<>>
    ELSE (IF images_tags[Head(items)] = tag
          THEN <<<<Head(items), Destination(dir, Head(items))>>>>
          ELSE <<>>)
         \o PlanOps(Tail(items), tag, dir)

\* the destinations that already exist
RECURSIVE PlanCollisions(_)
PlanCollisions(items) ==
    IF items = <<>> THEN <<>>
    ELSE (IF /\ images_tags[Head(items)] = SELECTED
             /\ ExistsOn(fs, Destination(selected_dir, Head(items)))
          THEN <<Destination(selected_dir, Head(items))>>
          ELSE IF /\ images_tags[Head(items)] = TO_REMOVE
                  /\ ExistsOn(fs, Destination(to_remove_dir, Head(items)))
          THEN <<Destination(to_remove_dir, Head(items))>>
          ELSE <<>>)
         \o PlanCollisions(Tail(items))

\* compute_commit_plan
compute_commit_plan ==
    [copy |-> PlanOps(TagItems, SELECTED, selected_dir),
     move |-> PlanOps(TagItems, TO_REMOVE, to_remove_dir),
     collisions |-> PlanCollisions(TagItems)]

\* shutil.copy2(src, dst): a missing source and a copy of a file onto itself
\* raise, and the error is logged
Copy2(disk, src, dst) ==
    IF ~ExistsOn(disk, src) \/ src = dst THEN disk
    ELSE WriteFile(disk, dst, BlobOn(disk, src))

\* shutil.move(src, dst) on a file: a rename over the destination
Move(disk, src, dst) ==
    IF ~ExistsOn(disk, src) \/ src = dst THEN disk
    ELSE WriteFile({f \in disk : f.path # src}, dst, BlobOn(disk, src))

\* lines 284-306: the copies, then the moves
RECURSIVE CopyAll(_, _)
CopyAll(disk, ops) ==
    IF ops = <<>> THEN disk
    ELSE CopyAll(Copy2(disk, Head(ops)[1], Head(ops)[2]), Tail(ops))
RECURSIVE MoveAll(_, _)
MoveAll(disk, ops) ==
    IF ops = <<>> THEN disk
    ELSE MoveAll(Move(disk, Head(ops)[1], Head(ops)[2]), Tail(ops))

Commits == Cardinality({f \in fs : Name(f.path) = LogName})

\* lines 263-316: the plan was confirmed
CarryOut(plan) ==
    /\ Commits < MaxCommits
    /\ fs' = WriteFile(MoveAll(CopyAll(fs, plan.copy), plan.move),
                       Join(source_dir, LogName), "log")

\* commit_changes, with the plan it computed; before a folder was opened
\* there is no source_dir and the handler raises AttributeError
Commit(plan) ==
    /\ source_dir # <<>>
    /\ IF plan.copy = <<>> /\ plan.move = <<>>
       THEN /\ UNCHANGED fs
            /\ ret' = [op |-> "commit_changes", ok |-> FALSE, val |-> plan]
       ELSE \E confirmed \in BOOLEAN :
               /\ IF confirmed THEN CarryOut(plan) ELSE UNCHANGED fs
               /\ ret' = [op |-> "commit_changes", ok |-> confirmed, val |-> plan]
    /\ UNCHANGED <<images_entries, images_tags, file_list, current_index, source_dir,
                   tmpfiles, seen, bytesVars, framesVars>>

commit_changes == Commit(compute_commit_plan)

Next == ChooseFolder \/ OnFileClicked \/ KeyPress \/ ExtractBestFrame

Spec == Init /\ [][Next]_vars

\* The session with its commit, on the disks that hold an ordinary image in
\* the folder and a motion photo of the same name in its sub-folder.
CommitDisks ==
    {d \in Disks :
        /\ Cardinality(d) = 2
        /\ \A f, g \in d : Name(f.path) = Name(g.path)
        /\ \E f \in d : f.blob = "plain"}

InitCommit == Init /\ fs \in CommitDisks

NextCommit == Next \/ commit_changes

SpecCommit == InitCommit /\ [][NextCommit]_vars

(***************************************************************************)
(* The structure of an input buffer, read off its pieces: what the claims  *)
(* about the detector and the extractor speak of.                          *)
(***************************************************************************)
Opens(ps) == {i \in 1..Len(ps) : ps[i] = "open"}
Closes(ps) == {j \in 1..Len(ps) : ps[j] = "close"}

\* the buffer holds a metadata block: an open tag and a close tag after it
HasBlock(ps) == \E i \in Opens(ps) : \E j \in Closes(ps) : i < j

\* the first block: from the leftmost open tag to the nearest close tag after it
BlockStart(ps) == Leftmost({i \in Opens(ps) : \E j \in Closes(ps) : i < j})
BlockStop(ps) == Leftmost({j \in Closes(ps) : BlockStart(ps) < j})
Inside(ps) == {k \in 1..Len(ps) : BlockStart(ps) < k /\ k < BlockStop(ps)}

TokenInside(ps) == \E k \in Inside(ps) : ps[k] = "token"

\* the pieces that are items of the container directory
MimeFirst == {"VML0", "VML2", "VML999"}       \* video item, Mime then Length
VideoItems == MimeFirst \cup {"VLM03", "V"}   \* items of media type video/mp4
WithLength == MimeFirst \cup {"VLM03", "IML1"}  \* items with a Length field

\* the Length attribute of an item
Declared(p) ==
    CASE p = "VML0" -> 0
      [] p = "VML2" -> 2
      [] p = "VML999" -> 999
      [] p = "VLM03" -> 3
      [] p = "IML1" -> 1

\* the video items of the block
VideoInside(ps) == {k \in Inside(ps) : ps[k] \in VideoItems}

\* a Length field follows the Mime attribute of video item k inside the block
LengthFollows(ps, k) ==
    \/ ps[k] \in MimeFirst
    \/ \E l \in Inside(ps) : l > k /\ ps[l] \in WithLength

\* the block has a video/mp4 item followed by a length field
HasVideoLength(ps) ==
    HasBlock(ps) /\ \E k \in VideoInside(ps) : LengthFollows(ps, k)

\* the length field nearest after the Mime attribute of the first video item
NearestLength(ps) ==
    LET k == Leftmost(VideoInside(ps)) IN
    IF ps[k] \in MimeFirst THEN Declared(ps[k])
    ELSE Declared(ps[Leftmost({l \in Inside(ps) : l > k /\ ps[l] \in WithLength})])

\* the temporary file a call returned
FileOf(name) == CHOOSE f \in tmpfiles : f.name = name
Extracted == ret.op = "extract_motion_video"

(***************************************************************************)
(* C1: is_motion_photo returns true iff the buffer holds a metadata block  *)
(* (the block the search finds: the leftmost open tag up to the nearest    *)
(* close tag after it, newlines in between allowed) and the vendor token   *)
(* lies inside that block.  No block, a block without the token, and the   *)
(* token only outside the block all give false.                            *)
(***************************************************************************)
C1_DetectorIffTokenInBlock ==
    ret.op = "is_motion_photo" =>
        (ret.ok <=> (HasBlock(parts) /\ TokenInside(parts)))

\* the detector said true for a block with a newline before the token and a
\* second token outside the block
C1_Witness ==
    /\ ret.op = "is_motion_photo"
    /\ ret.ok
    /\ \E k \in Inside(parts) : parts[k] = "jpg" /\ \E l \in Inside(parts) : l > k /\ parts[l] = "token"

\* the detector said false although the token is in the buffer, after the block
C1_WitnessOutside ==
    /\ ret.op = "is_motion_photo"
    /\ ~ret.ok
    /\ HasBlock(parts)
    /\ \E k \in 1..Len(parts) : k > BlockStop(parts) /\ parts[k] = "token"

(***************************************************************************)
(* C2: on a buffer with no metadata block, or whose block has no video/mp4 *)
(* item followed by a length field, extract_motion_video returns none and  *)
(* no temporary file is ever created.                                      *)
(***************************************************************************)
C2_NoneWithoutVideoItem ==
    ~HasVideoLength(parts) =>
        /\ tmpfiles = {}
        /\ Extracted => ~ret.ok

\* the extractor was called on a block whose video item has no length, with a
\* length field after the block
C2_Witness ==
    /\ Extracted
    /\ HasBlock(parts)
    /\ VideoInside(parts) # {}
    /\ ~HasVideoLength(parts)
    /\ \E k \in 1..Len(parts) : k > BlockStop(parts) /\ parts[k] \in WithLength

(***************************************************************************)
(* C3: on a buffer <prefix><block with Item:Mime="video/mp4"               *)
(* Item:Length="N"><N bytes> the extractor returns a file that holds       *)
(* exactly the N trailing bytes: the slice of the buffer from              *)
(* offset = length - N to the end.                                         *)
(***************************************************************************)
\* the buffer has that form: no open tag in the prefix, the block ends the
\* pieces, its first video item declares N, and N payload bytes follow
TrailingForm(ps, n) ==
    /\ HasBlock(ps)
    /\ Opens(ps) = {BlockStart(ps)}
    /\ BlockStop(ps) = Len(ps)
    /\ VideoInside(ps) # {}
    /\ ps[Leftmost(VideoInside(ps))] \in MimeFirst
    /\ Declared(ps[Leftmost(VideoInside(ps))]) = n

C3_TrailingBytes ==
    (Extracted /\ TrailingForm(parts, trail)) =>
        /\ ret.ok
        /\ FileOf(ret.val).bytes = Payload(trail)
        /\ FileOf(ret.val).bytes = SubSeq(data, Len(data) - trail + 1, Len(data))

\* a file with the two trailing bytes was returned, from a block behind a prefix
C3_Witness ==
    /\ Extracted
    /\ TrailingForm(parts, trail)
    /\ trail = 2
    /\ BlockStart(parts) > 1
    /\ ret.ok

(***************************************************************************)
(* C4: when the declared length recovered from the block exceeds the       *)
(* length of the buffer, the extractor returns none and writes no          *)
(* temporary file (no slice with a negative offset).                       *)
(***************************************************************************)
C4_NoneWhenLengthExceeds ==
    (HasVideoLength(parts) /\ NearestLength(parts) > Len(data)) =>
        /\ tmpfiles = {}
        /\ Extracted => ~ret.ok

\* the extractor was called on a block declaring 999 bytes
C4_Witness ==
    /\ Extracted
    /\ HasVideoLength(parts)
    /\ NearestLength(parts) = 999
    /\ Len(data) < 999
    /\ ~ret.ok

(***************************************************************************)
(* C5: the length the extractor uses is the Length attribute of the item   *)
(* that carries Item:Mime="video/mp4", never the length of another item,   *)
(* whatever the order of the items and of the attributes inside an item.   *)
(* Stated for blocks with one video item, which has a Length attribute:    *)
(* a file the extractor returns has the length that item declares.         *)
(***************************************************************************)
OneVideoItem(ps) ==
    /\ HasBlock(ps)
    /\ Cardinality(VideoInside(ps)) = 1
    /\ ps[Leftmost(VideoInside(ps))] \in WithLength

OwnLength(ps) == Declared(ps[Leftmost(VideoInside(ps))])

C5_LengthOfVideoItem ==
    (Extracted /\ ret.ok /\ OneVideoItem(parts)) =>
        Len(FileOf(ret.val).bytes) = OwnLength(parts)

(***************************************************************************)
(* C6: for a decodable video of F frames and a step S >= 1 the sampler     *)
(* returns exactly ceil(F / S) frames, those of decode indices 0, S, 2S,   *)
(* ... in decode order; with S = 1 all F frames in their order.            *)
(***************************************************************************)
Sampled == ret.op = "extract_frames_from_mp4"
CeilDiv(a, b) == (a + b - 1) \div b
\* the frames 0, S, 2S, ... below k
Stride(k, n) == [i \in 1..CeilDiv(k, n) |-> (i - 1) * n]
AllFrames(k) == [i \in 1..k |-> i - 1]
Decodable(v) == v.opened /\ v.good = v.total /\ ~v.raises

C6_EveryStepthFrame ==
    (Sampled /\ Decodable(video)) =>
        /\ ret.ok
        /\ Len(ret.val) = CeilDiv(video.total, step)
        /\ ret.val = Stride(video.total, step)
        /\ step = 1 => ret.val = AllFrames(video.total)

\* five frames sampled with step 2: frames 0, 2, 4
C6_Witness ==
    /\ Sampled
    /\ Decodable(video)
    /\ video.total = 5
    /\ step = 2
    /\ ret.val = <<0, 2, 4>>

C7_WitnessUnopened ==
    /\ Sampled
    /\ ~video.opened
    /\ video.total > 0
    /\ ret.val = <<>>

(***************************************************************************)
(* C8: a temporary file that extract_motion_video created is deleted when  *)
(* the extract-best-frame operation ends, whether the decode returned      *)
(* frames, returned none, or threw: between two operations of the session  *)
(* the temporary directory holds no file.                                  *)
(***************************************************************************)
C8_TempFileDeleted == tmpfiles = {}

(***************************************************************************)
(* C9: an entry flagged is_motion has a JPEG path (.jpg or .jpeg, in any   *)
(* case): the indexer runs the detector on JPEG files only, and the        *)
(* entries added by frame extraction are not flagged.                      *)
(***************************************************************************)
EntrySet == {images_entries[i] : i \in 1..Len(images_entries)}
JpegSuffixes == {<<46, 106, 112, 103>>, <<46, 106, 112, 101, 103>>}
HasJpegSuffix(path) ==
    \E x \in JpegSuffixes :
        /\ Len(Name(path)) > Len(x)
        /\ Lower(SubSeq(Name(path), Len(Name(path)) - Len(x) + 1, Len(Name(path)))) = x
\* the file name is <stem>_frame_<digits>.jpg
IsFrameName(path) == Contains(<<95, 102, 114, 97, 109, 101, 95>>, Name(path))

C9_MotionOnlyJpeg ==
    \A e \in EntrySet :
        /\ e.is_motion => HasJpegSuffix(e.path)
        /\ IsFrameName(e.path) => ~e.is_motion

\* the session lists a flagged JPEG, a PNG whose bytes hold the motion marker,
\* and a frame extracted from the JPEG
C9_Witness ==
    /\ \E e \in EntrySet : e.is_motion /\ HasJpegSuffix(e.path)
    /\ \E e \in EntrySet :
          /\ ~HasJpegSuffix(e.path)
          /\ Exists(e.path) /\ IsMotionPhoto(BytesOf(BlobAt(e.path)))
          /\ ~e.is_motion
    /\ \E e \in EntrySet : IsFrameName(e.path) /\ ~e.is_motion

(***************************************************************************)
(* C10: is_motion_photo depends on the bytes only and changes no state:    *)
(* every call on the same bytes returns the same result, whatever was      *)
(* called in between, and a call leaves the buffer, the temporary          *)
(* directory and the session as they were.                                 *)
(***************************************************************************)
SameResult == \A x, y \in seen : x[1] = y[1] => x[2] = y[2]

ExtractEnded == ret.op = "extract_best_frame"

C11_FirstFrameOrCancelNoOp ==
    [][(/\ ret'.op = "extract_best_frame"
        /\ \/ ret'.val.outcome = "cancelled"
           \/ ret'.val.outcome = "accepted" /\ ret'.val.index = 0)
       => UNCHANGED sessionVars]_vars

\* the picker was accepted with index 0 in a session where a tag was set
C11_Witness ==
    /\ ExtractEnded
    /\ ret.val.outcome = "accepted"
    /\ ret.val.index = 0
    /\ \E q \in DOMAIN images_tags : images_tags[q] = SELECTED

(***************************************************************************)
(* C12: when the frame picker is accepted with an index k other than 0,    *)
(* the frame is written to a file in the directory of the motion photo it  *)
(* comes from, named <stem>_frame_<k in 3 digits>.jpg, and that file is    *)
(* the path of a new entry, the last of the list, tagged Selected.         *)
(***************************************************************************)
ThreeDigits(k) ==
    <<48 + ((k \div 100) % 10), 48 + ((k \div 10) % 10), 48 + (k % 10)>>
\* <stem>_frame_<k>.jpg
FrameName(jpeg_path, k) ==
    Stem(Name(jpeg_path)) \o <<95, 102, 114, 97, 109, 101, 95>> \o ThreeDigits(k)
        \o <<46, 106, 112, 103>>
\* the file of that name next to the motion photo
Alongside(jpeg_path, k) == Join(Parent(jpeg_path), FrameName(jpeg_path, k))
FrameAccepted == ExtractEnded /\ ret.val.outcome = "accepted" /\ ret.val.index # 0

C12_FrameWrittenAlongside ==
    FrameAccepted =>
        /\ Exists(Alongside(ret.val.path, ret.val.index))
        /\ images_entries[Len(images_entries)].path = Alongside(ret.val.path, ret.val.index)
        /\ Alongside(ret.val.path, ret.val.index) \in DOMAIN images_tags
        /\ images_tags[Alongside(ret.val.path, ret.val.index)] = SELECTED

(***************************************************************************)
(* C13: the path is a unique key of the entry list: in every reachable     *)
(* state, after any folder openings, key presses and frame extractions     *)
(* (accepting the same frame of the same motion photo twice included), no  *)
(* two entries of images_entries have the same path.                       *)
(***************************************************************************)
C13_PathUnique ==
    \A i, j \in 1..Len(images_entries) :
        images_entries[i].path = images_entries[j].path => i = j

(***************************************************************************)
(* C14: in every reachable state images_tags has exactly one tag per       *)
(* indexed path (its keys are the paths of images_entries), and right      *)
(* after a folder is opened every indexed path is Unmarked: no tag of the  *)
(* previous folder is left.                                                *)
(***************************************************************************)
EntryPaths == {images_entries[i].path : i \in 1..Len(images_entries)}
FolderOpened == ret.op = "choose_folder"

C14_OneTagPerPath ==
    /\ DOMAIN images_tags = EntryPaths
    /\ FolderOpened => \A q \in DOMAIN images_tags : images_tags[q] = UNMARKED

\* a folder was opened again after a frame was extracted in it and tagged
\* Selected: the frame is indexed, and Unmarked
C14_Witness ==
    /\ FolderOpened
    /\ \E q \in EntryPaths : IsFrameName(q) /\ images_tags[q] = UNMARKED
    /\ Len(images_entries) >= 2

(***************************************************************************)
(* C15: a key press changes at most the tag of the current entry, by this  *)
(* table: U gives Unmarked; S gives Selected, or Unmarked when the tag was *)
(* Selected; R gives ToRemove, or Unmarked when the tag was ToRemove.      *)
(* The navigation keys and every other key leave all tags as they were,    *)
(* and U, S, R leave the current index as it was.                          *)
(***************************************************************************)
TaggingKeys == {"U", "S", "R"}
\* the rows of the table: <<key, tag before, tag after>>
TagTable ==
    {<<"U", UNMARKED, UNMARKED>>, <<"U", SELECTED, UNMARKED>>, <<"U", TO_REMOVE, UNMARKED>>,
     <<"S", UNMARKED, SELECTED>>, <<"S", SELECTED, UNMARKED>>, <<"S", TO_REMOVE, SELECTED>>,
     <<"R", UNMARKED, TO_REMOVE>>, <<"R", SELECTED, TO_REMOVE>>, <<"R", TO_REMOVE, UNMARKED>>}
KeyPressed == ret.op = "keyPressEvent"
CurrentPath == EntryAt(current_index).path

C15_TagTransitions ==
    [][ret'.op = "keyPressEvent" =>
         /\ DOMAIN images_tags' = DOMAIN images_tags
         /\ \A q \in DOMAIN images_tags \ {CurrentPath} : images_tags'[q] = images_tags[q]
         /\ ret'.val \in TaggingKeys =>
               /\ <<ret'.val, images_tags[CurrentPath], images_tags'[CurrentPath]>> \in TagTable
               /\ current_index' = current_index
         /\ ret'.val \notin TaggingKeys => images_tags' = images_tags
         /\ UNCHANGED <<images_entries, fs>>]_vars

\* S was pressed on an entry tagged Selected, while another entry is tagged
\* ToRemove
C15_Witness ==
    /\ KeyPressed
    /\ ret.val = "S"
    /\ images_tags[CurrentPath] = UNMARKED
    /\ \E q \in DOMAIN images_tags : images_tags[q] = TO_REMOVE

(***************************************************************************)
(* C16: whenever the entry list is not empty, 0 <= current_index < number  *)
(* of entries, after any folder openings (one that finds no image and one  *)
(* that finds fewer images than before included), list clicks, navigation  *)
(* keys and frame extractions; next at the last entry and previous at the  *)
(* first entry leave current_index as it was.                              *)
(***************************************************************************)
C16_IndexInRange ==
    /\ [](images_entries # <<>> =>
             (0 <= current_index /\ current_index < Len(images_entries)))
    /\ [][(/\ ret'.op = "keyPressEvent"
            /\ \/ ret'.val \in {"Right", "Down"} /\ current_index = Len(images_entries) - 1
               \/ ret'.val \in {"Left", "Up"} /\ current_index = 0)
           => current_index' = current_index]_vars

\* the sub-folder, with one image, was opened after a session on its parent
\* folder that listed that image and a frame extracted from it
C16_Witness ==
    /\ FolderOpened
    /\ source_dir = DirSub
    /\ Len(images_entries) = 1
    /\ current_index = 0
    /\ \E f \in fs : IsFrameName(f.path) /\ Parent(f.path) = DirR

\* Right was pressed at the last of several entries
C16_WitnessLast ==
    /\ KeyPressed
    /\ ret.val = "Right"
    /\ Len(images_entries) >= 2
    /\ current_index = Len(images_entries) - 1

(***************************************************************************)
(* C17: the commit plan holds exactly one copy for each path tagged        *)
(* Selected, one move for each path tagged ToRemove and nothing for an     *)
(* Unmarked path, and no two operations of a plan write to the same        *)
(* destination unless the plan lists that destination in its collisions.   *)
(***************************************************************************)
CommitPlanned == ret.op = "commit_changes"
Tagged(tag) == {q \in DOMAIN images_tags : images_tags[q] = tag}
Sources(ops) == {ops[i][1] : i \in 1..Len(ops)}
Listed(seq) == {seq[i] : i \in 1..Len(seq)}

\* one operation per tagged path
OnePerTag(plan) ==
    /\ Sources(plan.copy) = Tagged(SELECTED)
    /\ Len(plan.copy) = Cardinality(Tagged(SELECTED))
    /\ Sources(plan.move) = Tagged(TO_REMOVE)
    /\ Len(plan.move) = Cardinality(Tagged(TO_REMOVE))

\* two operations with one destination are listed as a collision
NoSilentClash(plan) ==
    LET ops == plan.copy \o plan.move IN
    \A i, j \in 1..Len(ops) :
        (i # j /\ ops[i][2] = ops[j][2]) => ops[i][2] \in Listed(plan.collisions)

C17_PlanWithoutClash ==
    CommitPlanned => (OnePerTag(ret.val) /\ NoSilentClash(ret.val))

====
